---- MODULE Spec2Model ----
(***************************************************************************)
(* Model of the WCAG build's taxonomy and cross-reference code:            *)
(*   src/11ty/techniques.ts   getTechniques, getGuidelinesVersions,        *)
(*                            getInvertedGuidelinesVersions, getPrinciples *)
(*   src/eleventy.config.ts   the linkTechniques / linkUnderstanding       *)
(*                            filters, the computed testRules property     *)
(* JavaScript strings are sequences of one-character strings; a name whose *)
(* spelling plays no part (a directory, a guideline id) is written as one  *)
(* token, <<"general">>.                                                   *)
(***************************************************************************)
EXTENDS Integers, Sequences, FiniteSets, TLC

VARIABLES
    tpc,         \* getTechniques: "idle" | "loop" | "returned" | "failed"
    tpaths,      \* getTechniques: the glob entries consumed so far, in order
    th1s,        \* getTechniques: what $("h1").html() is for each entry's document
    techniques,  \* getTechniques: the local `techniques` object
    tresult,     \* getTechniques: the returned catalog, or NoValue
    terror,      \* getTechniques: the error thrown, or NoValue
    upc,         \* version index: "idle" | "ready" | "returned" | "failed"
    ufiles,      \* the paths understanding/<dir>/<file> that exist
    ulisting,    \* the order in which the last glob listed ufiles
    uversions,   \* what getGuidelinesVersions last returned (or threw)
    inverted,    \* what getInvertedGuidelinesVersions last returned (or threw)
    prevListing, \* ulisting of the run before the last
    prevInverted, \* inverted of the run before the last
    ppc,         \* getPrinciples: "idle" | "edit" | "built" | "rebuilt"
    doc,         \* guidelines/index.html: the nested .principle elements
    tree,        \* what getPrinciples last returned (or threw)
    prevTree,    \* tree of the build before the last
    lastSwap,    \* <<p, a, b>>: the sibling guidelines exchanged before the last build
    lpc,         \* link filters: "idle" | "ready" | "returned" | "failed"
    lcall,       \* the last filter call: its name, its ids argument, the page
    loutput,     \* what the call returned, or NoValue
    lwarnings,   \* the console.warn lines of the call, in order
    lerror,      \* the error the call threw, or NoValue
    rpc,         \* testRules: "idle" | "ready" | "computed"
    actRules,    \* the "act-rules" table of guidelines/act-mapping.json
    rpage,       \* the page testRules was last computed for, or NoValue
    rtestRules   \* the testRules value computed for rpage, or NoValue

tvars == <<tpc, tpaths, th1s, techniques, tresult, terror>>
uvars == <<upc, ufiles, ulisting, uversions, inverted, prevListing, prevInverted>>
pvars == <<ppc, doc, tree, prevTree, lastSwap>>
lvars == <<lpc, lcall, loutput, lwarnings, lerror>>
rvars == <<rpc, actRules, rpage, rtestRules>>
vars == <<tvars, uvars, pvars, lvars, rvars>>

\* ------------------------------------------------------------- bounds
\* Number of glob entries getTechniques consumes in one run.
MaxPaths == 3
\* Number of files under understanding/.
MaxUFiles == 3
\* Length of the ids array a link filter is given.
MaxIds == 3

\* ------------------------------------------------- JavaScript strings
NoValue == [kind |-> "none"]
Undefined == [kind |-> "undefined"]
\* An inherited property value of Object.prototype (a function or object).
Inherited == [kind |-> "inherited"]

Min(a, b) == IF a < b THEN a ELSE b

\* UTF-16 code unit of the characters the inputs are written in.
CharCode(c) ==
    CASE c = "\n" -> 10 [] c = " " -> 32
      [] c = "0" -> 48 [] c = "1" -> 49 [] c = "2" -> 50 [] c = "3" -> 51
      [] c = "4" -> 52 [] c = "5" -> 53 [] c = "6" -> 54 [] c = "7" -> 55
      [] c = "8" -> 56 [] c = "9" -> 57
      [] c = "A" -> 65 [] c = "B" -> 66 [] c = "C" -> 67 [] c = "F" -> 70
      [] c = "G" -> 71
      [] c = "_" -> 95
      [] c = "a" -> 97 [] c = "b" -> 98 [] c = "c" -> 99
      [] c = "o" -> 111 [] c = "p" -> 112 [] c = "r" -> 114 [] c = "t" -> 116

\* \d and \s of a JavaScript regular expression.
IsDigit(c) == CharCode(c) >= 48 /\ CharCode(c) <= 57
IsSpace(c) == c \in {" ", "\n"}

\* a < b on two strings: lexicographic on code units, a proper prefix first.
StrLess(a, b) ==
    \E i \in 1..(Min(Len(a), Len(b)) + 1) :
        /\ \A k \in 1..(i - 1) : a[k] = b[k]
        /\ \/ i = Len(a) + 1 /\ i <= Len(b)
           \/ /\ i <= Len(a) /\ i <= Len(b)
              /\ CharCode(a[i]) < CharCode(b[i])

\* s.replace(/[^\d]/g, ""): every non-digit removed.
StripNonDigits(s) == SelectSeq(s, IsDigit)

\* s.replace(/\s\s+/, " "): no g flag, so only the first (leftmost, maximal)
\* run of two or more whitespace characters becomes one space.
ReplaceFirstRun(s) ==
    LET starts == {i \in 1..(Len(s) - 1) : IsSpace(s[i]) /\ IsSpace(s[i + 1])}
    IN IF starts = {} THEN s
       ELSE LET i == CHOOSE x \in starts : \A y \in starts : x <= y
                j == CHOOSE x \in i..Len(s) :
                        /\ \A k \in i..x : IsSpace(s[k])
                        /\ (x = Len(s) \/ ~IsSpace(s[x + 1]))
            IN SubSeq(s, 1, i - 1) \o <<" ">> \o SubSeq(s, j + 1, Len(s))

\* ------------------------------------------------------ getTechniques
\* Object.keys(technologyTitles), in declaration order.
technologies ==
    << <<"aria">>, <<"client-side-script">>, <<"css">>, <<"failures">>,
       <<"flash">>, <<"general">>, <<"html">>, <<"pdf">>,
       <<"server-side-script">>, <<"silverlight">>, <<"smil">>, <<"text">> >>

TechnologySet == {technologies[i] : i \in DOMAIN technologies}

\* The accessor property __proto__ of Object.prototype, spelled out.
ProtoKey == <<"_", "_", "p", "r", "o", "t", "o", "_", "_">>

\* Property names every plain object inherits from Object.prototype.
ObjectPrototypeNames == {<<"constructor">>, <<"toString">>, ProtoKey}

\* `key in obj` for a plain object with own keys `own`: own or inherited.
InObject(key, own) == key \in own \/ key \in ObjectPrototypeNames

\* A value returned by a function or read from an own property.
Own(v) == [kind |-> "value", value |-> v]

\* obj[key] for a plain object modelled as a function on its own keys.
Lookup(obj, key) ==
    IF key \in DOMAIN obj THEN Own(obj[key])
    ELSE IF key \in ObjectPrototypeNames THEN Inherited
    ELSE Undefined

\* assertIsTechnology: TRUE when it returns, FALSE when it throws.
assertIsTechnology(technology) == InObject(technology, TechnologySet)

EmptyCatalogLastKey == [t \in {technologies[Len(technologies)]} |-> <<>>]
\* The initial `techniques` object: every technology mapped to [].
EmptyCatalog == [t \in TechnologySet |-> <<>>]

\* basename(filename, ".html"): the extension dropped when it ends the name.
basename(filename, ext) ==
    IF Len(filename) > 1 /\ filename[Len(filename)] = ext
    THEN SubSeq(filename, 1, Len(filename) - 1)
    ELSE filename

\* The comparator of the per-technology sort, as "a sorts before b": the
\* digit strings compared as strings (the comparator returns -1).
SortLess(a, b) == StrLess(StripNonDigits(a.id), StripNonDigits(b.id))

BeforeDescending(cmp, a, b) ==
    IF cmp = "byDigits" THEN SortLess(a, b) ELSE StrLess(b, a)
\* "a sorts before b" under the comparator named cmp: the callback of
\* getTechniques, or the default order of sort() (code units).
Before(cmp, a, b) == IF cmp = "byDigits" THEN SortLess(a, b) ELSE StrLess(a, b)

InsertBeforeTies(sorted, x, cmp) ==
    LET keep == {k \in 1..Len(sorted) : Before(cmp, sorted[k], x)}
        p == IF keep = {} THEN 0 ELSE CHOOSE k \in keep : \A m \in keep : m <= k
    IN SubSeq(sorted, 1, p) \o <<x>> \o SubSeq(sorted, p + 1, Len(sorted))
\* Array.prototype.sort, which is stable: x is placed after every element
\* of the sorted prefix that does not sort after it.
InsertSorted(sorted, x, cmp) ==
    LET keep == {k \in 1..Len(sorted) : ~Before(cmp, x, sorted[k])}
        p == IF keep = {} THEN 0 ELSE CHOOSE k \in keep : \A m \in keep : m <= k
    IN SubSeq(sorted, 1, p) \o <<x>> \o SubSeq(sorted, p + 1, Len(sorted))

SortAllButLast(s, cmp) ==
    LET f[n \in 0..Len(s)] ==
            IF n = 0 THEN <<>> ELSE InsertSorted(f[n - 1], s[n], cmp)
    IN IF s = <<>> THEN s ELSE f[Len(s) - 1]
StableSort(s, cmp) ==
    LET f[n \in 0..Len(s)] ==
            IF n = 0 THEN <<>> ELSE InsertSorted(f[n - 1], s[n], cmp)
    IN f[Len(s)]

\* The second loop of getTechniques: every technology's list sorted.
SortCatalog(cat) == [t \in DOMAIN cat |-> StableSort(cat[t], "byDigits")]

\* Directory names the glob may report under techniques/.
TechDirs == {<<"general">>, <<"css">>, <<"bogus">>, <<"constructor">>}
\* File stems the glob may report.
TechStems == {<<"G", "1">>, <<"G", "2">>, <<"G", "1", "0">>, <<"F", "1">>}
\* What $("h1").html() yields for a document: null without an h1.
NullHtml == [kind |-> "null"]
Markup(s) == [kind |-> "markup", html |-> s]
H1Markups ==
    { NullHtml,
      Markup(<<"A", " ", "\n", "B">>),
      Markup(<<"A", " ", " ", "B", "\n", " ", "C">>) }

ErrInvalidTechnology(t) == [type |-> "Error", message |-> "Invalid technology name: ", arg |-> t]
ErrNotAFunction == [type |-> "TypeError", message |-> "techniques[technology].push is not a function", arg |-> NoValue]
ErrNullReplace == [type |-> "TypeError", message |-> "Cannot read properties of null (reading 'replace')", arg |-> NoValue]

TechInit ==
    /\ tpc = "loop"
    /\ tpaths = <<>>
    /\ th1s = <<>>
    /\ techniques = EmptyCatalog
    /\ tresult = NoValue
    /\ terror = NoValue

TechFail(path, h1, err) ==
    /\ tpc' = "failed"
    /\ tpaths' = Append(tpaths, path)
    /\ th1s' = Append(th1s, h1)
    /\ techniques' = EmptyCatalog
    /\ tresult' = NoValue
    /\ terror' = err
    /\ UNCHANGED <<uvars, pvars, lvars, rvars>>

\* One iteration of `for (const path of paths)`: the next glob entry is
\* split, validated, its h1 read, and the Technique pushed.
TechLoopStep ==
    /\ tpc = "loop"
    /\ Len(tpaths) < MaxPaths
    /\ \E dir \in TechDirs, stem \in TechStems, h1 \in H1Markups :
        LET path == <<dir, Append(stem, ".html")>>
            technology == path[1]
            filename == path[2]
            target == Lookup(techniques, technology)
        IN /\ \A i \in DOMAIN tpaths : tpaths[i] # path
           /\ IF ~assertIsTechnology(technology)
              THEN TechFail(path, h1, ErrInvalidTechnology(technology))
              ELSE IF h1 = NullHtml
              THEN TechFail(path, h1, ErrNullReplace)
              ELSE IF target \in {Inherited, Undefined}
              THEN TechFail(path, h1, ErrNotAFunction)
              ELSE /\ techniques' =
                        [techniques EXCEPT ![technology] =
                            Append(@, [id |-> basename(filename, ".html"),
                                       titleHtml |-> ReplaceFirstRun(h1.html)])]
                   /\ tpaths' = Append(tpaths, path)
                   /\ th1s' = Append(th1s, h1)
                   /\ UNCHANGED <<tpc, tresult, terror, uvars, pvars, lvars, rvars>>

\* The glob is exhausted: every technology's list is sorted and the
\* catalog returned.
TechSortReturn ==
    /\ tpc = "loop"
    /\ techniques' = SortCatalog(techniques)
    /\ tresult' = Own(techniques')
    /\ tpc' = "returned"
    /\ UNCHANGED <<tpaths, th1s, terror, uvars, pvars, lvars, rvars>>

TechIdle ==
    /\ tpc = "idle"
    /\ tpaths = <<>>
    /\ th1s = <<>>
    /\ techniques = EmptyCatalog
    /\ tresult = NoValue
    /\ terror = NoValue

\* ------------------------------------------- getGuidelinesVersions
Thrown(e) == [kind |-> "error", error |-> e]

\* String(v) as the regular expression's test() sees a value.
ToStr(v) ==
    IF v.kind = "value" THEN v.value
    ELSE IF v.kind = "undefined" THEN <<"undefined">>
    ELSE <<"function Object() { [native code] }">>

V20 == <<"2", "0">>
V21 == <<"2", "1">>
V22 == <<"2", "2">>
\* The keys of `versions`; integer-like keys enumerate in ascending order.
VersionKeys == <<V20, V21, V22>>
WcagVersions == {VersionKeys[i] : i \in DOMAIN VersionKeys}

AssertIsWcagVersionCast(v) == TRUE
\* assertIsWcagVersion, on String(v): /^2[012]$/.  TRUE when it returns.
assertIsWcagVersion(v) ==
    LET str == ToStr(v)
    IN Len(str) = 2 /\ str[1] = "2" /\ str[2] \in {"0", "1", "2"}

ErrUnexpectedVersion(v) == [type |-> "Error", message |-> "Unexpected version found: ", arg |-> ToStr(v)]
ErrUndefinedPush == [type |-> "TypeError", message |-> "Cannot read properties of undefined (reading 'push')", arg |-> <<>>]

\* obj[key] = value on a plain object, for a string value: an own property
\* is written, except that the key __proto__ runs the inherited setter,
\* which ignores a value that is neither an object nor null.
Assign(obj, key, value) ==
    IF key = ProtoKey THEN obj
    ELSE [x \in DOMAIN obj \cup {key} |-> IF x = key THEN value ELSE obj[x]]

\* getGuidelinesVersions over the glob result `paths`: the loop that files
\* each basename under its version, then the default (code unit) sort of
\* every list.
getGuidelinesVersions(paths) ==
    LET pushed[n \in 0..Len(paths)] ==
            IF n = 0 THEN Own([v \in WcagVersions |-> <<>>])
            ELSE LET before == pushed[n - 1]
                     version == paths[n][1]
                     filename == paths[n][2]
                 IN IF before.kind = "error" THEN before
                    ELSE IF ~assertIsWcagVersion(Own(version))
                    THEN Thrown(ErrUnexpectedVersion(Own(version)))
                    ELSE IF Lookup(before.value, version).kind # "value"
                    THEN Thrown(ErrUndefinedPush)
                    ELSE Own([before.value EXCEPT ![version] =
                                Append(@, basename(filename, ".html"))])
        loop == pushed[Len(paths)]
    IN IF loop.kind = "error" THEN loop
       ELSE Own([v \in DOMAIN loop.value |-> StableSort(loop.value[v], "default")])

\* Object.entries(versions) unrolled by the two nested loops of
\* getInvertedGuidelinesVersions: the (version, basename) pairs in the order
\* the assignments happen.
RECURSIVE InvertedAssignments(_, _)
InvertedAssignments(versions, i) ==
    IF i > Len(VersionKeys) THEN <<>>
    ELSE [k \in DOMAIN versions[VersionKeys[i]] |->
            <<VersionKeys[i], versions[VersionKeys[i]][k]>>]
         \o InvertedAssignments(versions, i + 1)

\* An assignment sequence replayed on {}.
ReplayAssignments(pairs) ==
    LET obj[n \in 0..Len(pairs)] ==
            IF n = 0 THEN <<>>
            ELSE Assign(obj[n - 1], pairs[n][2], pairs[n][1])
    IN obj[Len(pairs)]

\* The two loops of getInvertedGuidelinesVersions over the object that
\* getGuidelinesVersions returned (or its error, passed on).
InvertVersions(versions) ==
    IF versions.kind = "error" THEN versions
    ELSE Own(ReplayAssignments(InvertedAssignments(versions.value, 1)))

InvertedFromListing(paths) ==
    IF getGuidelinesVersions(paths).kind = "error" THEN getGuidelinesVersions(paths)
    ELSE Own(ReplayAssignments(
            [n \in DOMAIN paths |-> <<paths[n][1], basename(paths[n][2], ".html")>>]))

getInvertedGuidelinesVersions(paths) == InvertVersions(getGuidelinesVersions(paths))

\* Every order in which a glob may list the set `files`.
Listings(files) ==
    {l \in [1..Cardinality(files) -> files] :
        \A i, j \in DOMAIN l : i # j => l[i] # l[j]}

HtmlFile(stem) == Append(stem, ".html")

\* Files that may exist under understanding/: two basenames under each
\* version, one under a directory that is no version, and one whose
\* basename is a member of Object.prototype.
UnderstandingUniverse ==
    ({V20, V21, V22} \X {HtmlFile(<<"b">>), HtmlFile(<<"a", "b">>)})
        \cup {<<<<"2", "3">>, HtmlFile(<<"b">>)>>, <<V20, HtmlFile(ProtoKey)>>}

UIdle ==
    /\ upc = "idle"
    /\ ufiles = {}
    /\ ulisting = <<>>
    /\ uversions = NoValue
    /\ inverted = NoValue
    /\ prevListing = <<>>
    /\ prevInverted = NoValue

UInit ==
    /\ upc = "ready"
    /\ ufiles \in {f \in SUBSET UnderstandingUniverse : Cardinality(f) <= MaxUFiles}
    /\ ulisting = <<>>
    /\ uversions = NoValue
    /\ inverted = NoValue
    /\ prevListing = <<>>
    /\ prevInverted = NoValue

\* One run of getInvertedGuidelinesVersions (and, inside it, of
\* getGuidelinesVersions) over the files as the glob lists them this time.
VersionIndexRun ==
    /\ upc # "idle"
    /\ \E listing \in Listings(ufiles) :
        /\ ulisting' = listing
        /\ uversions' = getGuidelinesVersions(listing)
        /\ inverted' = getInvertedGuidelinesVersions(listing)
        /\ upc' = IF inverted'.kind = "error" THEN "failed" ELSE "returned"
    /\ prevListing' = ulisting
    /\ prevInverted' = inverted
    /\ UNCHANGED <<ufiles, tvars, pvars, lvars, rvars>>

\* ------------------------------------------------------ getPrinciples
\* String.prototype.trim.
Trim(s) ==
    LET ink == {i \in DOMAIN s : ~IsSpace(s[i])}
    IN IF ink = {} THEN <<>>
       ELSE SubSeq(s, CHOOSE i \in ink : \A k \in ink : i <= k,
                      CHOOSE i \in ink : \A k \in ink : k <= i)

\* A number in a template string: its decimal digits.
RECURSIVE Dec(_)
Dec(n) ==
    LET digit == <<"0", "1", "2", "3", "4", "5", "6", "7", "8", "9">>
    IN IF n < 10 THEN <<digit[n + 1]>> ELSE Dec(n \div 10) \o <<digit[(n % 10) + 1]>>

\* `${i + 1}`, `${i + 1}.${j + 1}` and `${i + 1}.${j + 1}.${k + 1}` for the
\* 0-based callback indices i, j, k.
PrincipleNum(i) == Dec(i + 1)
GuidelineNumFromZero(i, j) == Dec(i + 1) \o <<".">> \o Dec(j)
GuidelineNum(i, j) == Dec(i + 1) \o <<".">> \o Dec(j + 1)
ScNum(i, j, k) == Dec(i + 1) \o <<".">> \o Dec(j + 1) \o <<".">> \o Dec(k + 1)

WCAG(v) == <<"W", "C", "A", "G">> \o v

InputModalities == <<"input-modalities">>

GuidelineVersionBase(guidelineEl) == WCAG(V20)
\* The version of a guideline: the ternary on guidelineEl.attribs.id.
GuidelineVersion(guidelineEl) ==
    IF guidelineEl.id = InputModalities THEN WCAG(V21) ELSE WCAG(V20)

\* versions[scEl.attribs.id], the value assertIsWcagVersion is given.
ResolvedVersion(versions, scEl) == Lookup(versions, scEl.id)

ScNode(versions, i, j, k, scEl) ==
    [id |-> scEl.id,
     name |-> Trim(scEl.h4),
     num |-> ScNum(i, j, k),
     level |-> Trim(scEl.level),
     type |-> "SC",
     version |-> WCAG(ToStr(ResolvedVersion(versions, scEl)))]

GuidelineNode(versions, i, j, guidelineEl) ==
    [id |-> guidelineEl.id,
     name |-> Trim(guidelineEl.h3),
     num |-> GuidelineNum(i, j),
     type |-> "Guideline",
     version |-> GuidelineVersion(guidelineEl),
     successCriteria |->
        [k \in DOMAIN guidelineEl.scs |->
            ScNode(versions, i, j, k - 1, guidelineEl.scs[k])]]

PrincipleNode(versions, i, el) ==
    [id |-> el.id,
     name |-> Trim(el.h2),
     num |-> PrincipleNum(i),
     type |-> "Principle",
     version |-> WCAG(V20),
     guidelines |->
        [j \in DOMAIN el.guidelines |->
            GuidelineNode(versions, i, j - 1, el.guidelines[j])]]

\* The .sc elements of the document by position <<i, j, k>> (1-based).
ScPositions(document) ==
    {pos \in (1..Len(document)) \X (1..3) \X (1..3) :
        /\ pos[2] \in DOMAIN document[pos[1]].guidelines
        /\ pos[3] \in DOMAIN document[pos[1]].guidelines[pos[2]].scs}

ScAt(document, pos) == document[pos[1]].guidelines[pos[2]].scs[pos[3]]

\* Document order of two positions.
PosBefore(x, y) ==
    \/ x[1] < y[1]
    \/ x[1] = y[1] /\ x[2] < y[2]
    \/ x[1] = y[1] /\ x[2] = y[2] /\ x[3] < y[3]

\* getPrinciples given what getInvertedGuidelinesVersions produced: the
\* three nested each() loops; the first .sc whose version does not pass
\* assertIsWcagVersion throws out of all of them.
BuildPrinciples(index, document) ==
    IF index.kind = "error" THEN index
    ELSE LET versions == index.value
             bad == {pos \in ScPositions(document) :
                        ~assertIsWcagVersion(ResolvedVersion(versions, ScAt(document, pos)))}
         IN IF bad # {}
            THEN LET first == CHOOSE x \in bad : \A y \in bad : y = x \/ PosBefore(x, y)
                 IN Thrown(ErrUnexpectedVersion(
                        ResolvedVersion(versions, ScAt(document, first))))
            ELSE Own([i \in DOMAIN document |->
                        PrincipleNode(versions, i - 1, document[i])])

getPrinciples(paths, document) ==
    BuildPrinciples(getInvertedGuidelinesVersions(paths), document)

\* Ids the index document may use.
PrincipleIds == << <<"perceivable">>, <<"operable">> >>
GuidelineIds == {InputModalities, <<"keyboard-accessible">>, <<"text-alternatives">>}
ScIds == {<<"b">>, <<"a", "b">>, <<"constructor">>}

\* The text of a conformance-level paragraph.
LevelText(id) ==
    IF id = <<"b">> THEN <<"\n", "A", "A", " ">>
    ELSE IF id = <<"a", "b">> THEN <<" ", "A">>
    ELSE <<"A", "A", "A", "\n">>

PrincipleEl(id) == [id |-> id, h2 |-> <<"\n", " ">> \o id \o <<" ">>, guidelines |-> <<>>]
GuidelineEl(id) == [id |-> id, h3 |-> <<" ">> \o id \o <<" ", "x", "\n">>, scs |-> <<>>]
ScEl(id) == [id |-> id, h4 |-> <<" ", " ">> \o id, level |-> LevelText(id)]

PIdle ==
    /\ ppc = "idle"
    /\ doc = <<>>
    /\ tree = NoValue
    /\ prevTree = NoValue
    /\ lastSwap = <<>>

PInit ==
    /\ ppc = "edit"
    /\ doc = <<>>
    /\ tree = NoValue
    /\ prevTree = NoValue
    /\ lastSwap = <<>>

\* The index document gains a .principle section.
AddPrinciple ==
    /\ ppc = "edit"
    /\ Len(doc) < Len(PrincipleIds)
    /\ doc' = Append(doc, PrincipleEl(PrincipleIds[Len(doc) + 1]))
    /\ UNCHANGED <<ppc, tree, prevTree, lastSwap, tvars, uvars, lvars, rvars>>

\* The last principle gains a .guideline section.
AddGuideline ==
    /\ ppc = "edit"
    /\ doc # <<>>
    /\ \E id \in GuidelineIds :
        /\ \A i \in DOMAIN doc : \A j \in DOMAIN doc[i].guidelines :
                doc[i].guidelines[j].id # id
        /\ doc' = [doc EXCEPT ![Len(doc)].guidelines = Append(@, GuidelineEl(id))]
    /\ UNCHANGED <<ppc, tree, prevTree, lastSwap, tvars, uvars, lvars, rvars>>

\* The last guideline gains a .sc section.
AddSuccessCriterion ==
    /\ ppc = "edit"
    /\ doc # <<>>
    /\ doc[Len(doc)].guidelines # <<>>
    /\ \E id \in ScIds :
        /\ \A pos \in ScPositions(doc) : ScAt(doc, pos).id # id
        /\ doc' = [doc EXCEPT ![Len(doc)].guidelines[Len(doc[Len(doc)].guidelines)].scs =
                        Append(@, ScEl(id))]
    /\ UNCHANGED <<ppc, tree, prevTree, lastSwap, tvars, uvars, lvars, rvars>>

\* A run of getPrinciples over the document as it stands.
PrinBuild ==
    /\ ppc = "edit"
    /\ \E listing \in Listings(ufiles) :
        /\ inverted' = getInvertedGuidelinesVersions(listing)
        /\ tree' = getPrinciples(listing, doc)
    /\ ppc' = "built"
    /\ UNCHANGED <<doc, prevTree, lastSwap, tvars, lvars, rvars>>
    /\ UNCHANGED <<upc, ufiles, ulisting, uversions, prevListing, prevInverted>>

\* Guidelines a and b of principle p exchanged in the sequence gs.
SwapAt(gs, a, b) ==
    [j \in DOMAIN gs |-> IF j = a THEN gs[b] ELSE IF j = b THEN gs[a] ELSE gs[j]]

\* Two sibling guidelines change places in the index document and
\* getPrinciples runs again.
PrinSwapRebuild ==
    /\ ppc = "built"
    /\ \E p \in DOMAIN doc : \E a, b \in DOMAIN doc[p].guidelines :
        /\ a < b
        /\ doc' = [doc EXCEPT ![p].guidelines = SwapAt(@, a, b)]
        /\ lastSwap' = <<p, a, b>>
    /\ \E listing \in Listings(ufiles) :
        /\ inverted' = getInvertedGuidelinesVersions(listing)
        /\ tree' = getPrinciples(listing, doc')
    /\ prevTree' = tree
    /\ ppc' = "rebuilt"
    /\ UNCHANGED <<tvars, lvars, rvars>>
    /\ UNCHANGED <<upc, ufiles, ulisting, uversions, prevListing, prevInverted>>

\* ------------------------------------------------------- link filters
\* flatTechniques: technique id -> its entry.
flatTechniques ==
    [id \in {<<"G", "1">>, <<"F", "1">>} |->
        IF id = <<"G", "1">>
        THEN [technology |-> <<"general">>, truncatedTitle |-> <<"A", " ", "B">>]
        ELSE [technology |-> <<"failures">>, truncatedTitle |-> <<"C">>]]

\* flatGuidelines: guideline or success criterion id -> its node.
flatGuidelines ==
    [id \in {InputModalities, <<"b">>} |->
        IF id = InputModalities
        THEN [num |-> GuidelineNum(1, 4), name |-> InputModalities]
        ELSE [num |-> ScNum(0, 0, 0), name |-> <<"b">>]]

\* flatTechniques[id] / flatGuidelines[id]: the entry, or undefined.
FlatLookup(map, id) == IF id \in DOMAIN map THEN Own(map[id]) ELSE Undefined

\* baseUrls.techniques and baseUrls.understanding (no WCAG_MODE set).
BaseUrlTechniques == <<"/", "techniques", "/">>
BaseUrlUnderstanding == <<"/", "understanding", "/">>

Str(id) == [kind |-> "string", value |-> id]
NotAString == [kind |-> "number", value |-> <<"4", "2">>]

\* page.filePathStem, by its segments: /techniques/general/G1 is
\* <<"techniques", "general", "G1">>.
\* /^\/techniques\/.*\//.test(stem)
UnderTechniquesDir(stem) == Len(stem) >= 3 /\ stem[1] = "techniques"
\* stem.startsWith("/techniques")
StartsWithTechniques(stem) == Len(stem) >= 1 /\ stem[1] = "techniques"
\* stem.startsWith("/understanding/")
StartsWithUnderstanding(stem) == Len(stem) >= 2 /\ stem[1] = "understanding"

TechniquesUrlBase(stem) ==
    IF UnderTechniquesDir(stem) THEN <<".", ".", "/">>
    ELSE IF StartsWithTechniques(stem) THEN <<>>
    ELSE BaseUrlTechniques

UnderstandingUrlBase(stem) ==
    IF StartsWithUnderstanding(stem) THEN <<>> ELSE BaseUrlUnderstanding

\* `<a href="${urlBase}${technique.technology}/${id}">${id}: ${title}</a>`
TechniqueLink(stem, id, technique) ==
    <<"<a href=\"">> \o TechniquesUrlBase(stem) \o technique.technology \o <<"/">> \o id
        \o <<"\">">> \o id \o <<":", " ">> \o technique.truncatedTitle \o <<"</a>">>

\* `<a href="${urlBase}${id}">${guideline.num}: ${guideline.name}</a>`
UnderstandingLink(stem, id, guideline) ==
    <<"<a href=\"">> \o UnderstandingUrlBase(stem) \o id
        \o <<"\">">> \o guideline.num \o <<":", " ">> \o guideline.name \o <<"</a>">>

\* lodash compact on the mapped array: the undefined entries dropped.
IsLink(x) == x.kind = "value"
CompactNothing(links) == links
Compact(links) == SelectSeq(links, IsLink)

\* Array.prototype.join: an undefined element is joined as the empty string.
Join(links, sep) ==
    LET text(x) == IF x.kind = "value" THEN x.value ELSE <<>>
        joined[n \in 0..Len(links)] ==
            IF n = 0 THEN <<>>
            ELSE IF n = 1 THEN text(links[1])
            ELSE joined[n - 1] \o sep \o text(links[n])
    IN joined[Len(links)]

Separator == <<"\n", "a", "n", "d", "\n">>

\* Array.isArray(ids) ? ids : [ids]
AsArray(ids) == IF ids.isArray THEN ids.items ELSE <<ids.item>>

ErrInvalidTechniqueId(id) == [type |-> "Error", message |-> "linkTechniques: invalid id ", arg |-> id.value]
ErrInvalidUnderstandingId == [type |-> "Error", message |-> "linkUnderstanding: invalid id passed", arg |-> <<>>]
ErrUndefinedNum == [type |-> "TypeError", message |-> "Cannot read properties of undefined (reading 'num')", arg |-> <<>>]

WarnTechnique(page, id) == [filter |-> "linkTechniques", inputPath |-> page.inputPath, id |-> id]
WarnGuideline(page, id) == [filter |-> "linkUnderstanding", inputPath |-> page.inputPath, id |-> id]

\* What the callback given to map() does for one id of linkTechniques:
\* throws, warns and returns undefined, or returns the link.
TechniqueStep(page, id) ==
    IF id.kind # "string"
    THEN [thrown |-> Thrown(ErrInvalidTechniqueId(id)), warned |-> <<>>, link |-> Undefined]
    ELSE LET technique == FlatLookup(flatTechniques, id.value)
         IN IF technique.kind = "undefined"
            THEN [thrown |-> NoValue, warned |-> <<WarnTechnique(page, id.value)>>,
                  link |-> Undefined]
            ELSE [thrown |-> NoValue, warned |-> <<>>,
                  link |-> Own(TechniqueLink(page.filePathStem, id.value, technique.value))]

\* The same for linkUnderstanding: the warning is not followed by a return,
\* so guideline.num is read on undefined.
UnderstandingStep(page, id) ==
    IF id.kind # "string"
    THEN [thrown |-> Thrown(ErrInvalidUnderstandingId), warned |-> <<>>, link |-> Undefined]
    ELSE LET guideline == FlatLookup(flatGuidelines, id.value)
         IN IF guideline.kind = "undefined"
            THEN [thrown |-> Thrown(ErrUndefinedNum),
                  warned |-> <<WarnGuideline(page, id.value)>>, link |-> Undefined]
            ELSE [thrown |-> NoValue, warned |-> <<>>,
                  link |-> Own(UnderstandingLink(page.filePathStem, id.value, guideline.value))]

\* map() over the ids with the callback of the named filter: the callback
\* runs on each id in order until one throws.
MapIds(list, page, filter) ==
    LET run[n \in 0..Len(list)] ==
            IF n = 0 THEN [thrown |-> NoValue, warned |-> <<>>, links |-> <<>>]
            ELSE LET before == run[n - 1]
                     step == IF filter = "linkTechniques"
                             THEN TechniqueStep(page, list[n])
                             ELSE UnderstandingStep(page, list[n])
                 IN IF before.thrown # NoValue THEN before
                    ELSE [thrown |-> step.thrown,
                          warned |-> before.warned \o step.warned,
                          links |-> Append(before.links, step.link)]
    IN run[Len(list)]

\* The linkTechniques filter: [output, warnings, error].
linkTechniques(ids, page) ==
    LET mapped == MapIds(AsArray(ids), page, "linkTechniques")
    IN IF mapped.thrown # NoValue
       THEN [output |-> NoValue, warnings |-> mapped.warned, error |-> mapped.thrown]
       ELSE [output |-> Own(Join(Compact(mapped.links), Separator)),
             warnings |-> mapped.warned, error |-> NoValue]

\* The linkUnderstanding filter: no compact before the join.
linkUnderstanding(ids, page) ==
    LET mapped == MapIds(AsArray(ids), page, "linkUnderstanding")
    IN IF mapped.thrown # NoValue
       THEN [output |-> NoValue, warnings |-> mapped.warned, error |-> mapped.thrown]
       ELSE [output |-> Own(Join(mapped.links, Separator)),
             warnings |-> mapped.warned, error |-> NoValue]

\* Pages a filter may be used on.
Pages ==
    { [inputPath |-> "./techniques/general/G1.html", filePathStem |-> <<"techniques", "general", "G1">>],
      [inputPath |-> "./techniques/index.html", filePathStem |-> <<"techniques", "index">>],
      [inputPath |-> "./understanding/22/b.html", filePathStem |-> <<"understanding", "22", "b">>] }

\* Ids a template may pass: resolvable, unresolvable, and not a string.
TechniqueArgs == {Str(<<"G", "1">>), Str(<<"F", "1">>), Str(<<"G", "9", "9">>), NotAString}
UnderstandingArgs == {Str(InputModalities), Str(<<"b">>), Str(<<"z", "z">>), NotAString}

\* The ids argument: one id, or an array of up to MaxIds of them.
IdsArguments(pool) ==
    {[isArray |-> FALSE, item |-> x, items |-> <<>>] : x \in pool}
        \cup UNION {{[isArray |-> TRUE, item |-> NoValue, items |-> l] :
                        l \in [1..n -> pool]} : n \in 0..MaxIds}

LIdle ==
    /\ lpc = "idle"
    /\ lcall = NoValue
    /\ loutput = NoValue
    /\ lwarnings = <<>>
    /\ lerror = NoValue

LInit ==
    /\ lpc = "ready"
    /\ lcall = NoValue
    /\ loutput = NoValue
    /\ lwarnings = <<>>
    /\ lerror = NoValue

LinkFinish(name, ids, page, result) ==
    /\ lcall' = [filter |-> name, ids |-> ids, page |-> page]
    /\ loutput' = result.output
    /\ lwarnings' = result.warnings
    /\ lerror' = result.error
    /\ lpc' = IF result.error = NoValue THEN "returned" ELSE "failed"
    /\ UNCHANGED <<tvars, uvars, pvars, rvars>>

\* A template applies the linkTechniques filter.
LinkTechniquesCall ==
    /\ lpc = "ready"
    /\ \E ids \in IdsArguments(TechniqueArgs), page \in Pages :
        LinkFinish("linkTechniques", ids, page, linkTechniques(ids, page))

\* A template applies the linkUnderstanding filter.
LinkUnderstandingCall ==
    /\ lpc = "ready"
    /\ \E ids \in IdsArguments(UnderstandingArgs), page \in Pages :
        LinkFinish("linkUnderstanding", ids, page, linkUnderstanding(ids, page))

\* The files under understanding/ when the taxonomy is built: each success
\* criterion page may be missing; one of them may sit under two versions.
PrinciplesCorpus ==
    {<<V20, HtmlFile(<<"b">>)>>, <<V21, HtmlFile(<<"a", "b">>)>>,
     <<V22, HtmlFile(<<"a", "b">>)>>}

\* ---------------------------------------------------------- testRules
\* Number of records in the rule-mapping table.
MaxRules == 3

\* list.includes(x).
Includes(list, x) == \E i \in DOMAIN list : list[i] = x

\* rules.filter(rule => rule[field].includes(slug)): the records that pass,
\* in the order of the array.
FilterRules(rules, field, slug) ==
    LET kept[n \in 0..Len(rules)] ==
            IF n = 0 THEN <<>>
            ELSE IF Includes(rules[n][field], slug) THEN Append(kept[n - 1], rules[n])
            ELSE kept[n - 1]
    IN kept[Len(rules)]

TestRulesByCriteria(page, rules) ==
    IF page.isTechniques THEN Own(FilterRules(rules, "successCriteria", page.fileSlug))
    ELSE IF page.isUnderstanding
    THEN Own(FilterRules(rules, "successCriteria", page.fileSlug))
    ELSE Undefined
\* The computed data property testRules; a page flagged neither way falls
\* off the end of the function.
testRules(page, rules) ==
    IF page.isTechniques THEN Own(FilterRules(rules, "wcagTechniques", page.fileSlug))
    ELSE IF page.isUnderstanding
    THEN Own(FilterRules(rules, "successCriteria", page.fileSlug))
    ELSE Undefined

\* Records the table may hold: the technique ids and the success criterion
\* ids a rule declares.
RuleRecords ==
    [wcagTechniques : {<<>>, <<<<"G1">>>>, <<<<"F1">>, <<"G1">>>>},
     successCriteria : {<<>>, <<<<"b">>>>}]

\* Tables of up to MaxRules records.
RuleTables == UNION {[1..n -> RuleRecords] : n \in 0..MaxRules}

\* Pages the property is computed for: slug and directory data flags.
RulePages ==
    [fileSlug : {<<"G1">>, <<"F1">>, <<"b">>},
     isTechniques : BOOLEAN, isUnderstanding : BOOLEAN]

RIdle ==
    /\ rpc = "idle"
    /\ actRules = <<>>
    /\ rpage = NoValue
    /\ rtestRules = NoValue

RInit ==
    /\ rpc = "ready"
    /\ actRules \in RuleTables
    /\ rpage = NoValue
    /\ rtestRules = NoValue

\* Eleventy computes testRules for one page.
TestRulesCompute ==
    /\ rpc = "ready"
    /\ \E page \in RulePages :
        /\ rpage' = Own(page)
        /\ rtestRules' = testRules(page, actRules)
    /\ rpc' = "computed"
    /\ UNCHANGED <<actRules, tvars, uvars, pvars, lvars>>

\* ----------------------------------------------------- specifications
\* Each entry point is exercised by a specification of its own; the state
\* of the other entry points stays idle.
InitTech == TechInit /\ UIdle /\ PIdle /\ LIdle /\ RIdle

NextTech == TechLoopStep \/ TechSortReturn

SpecTech == InitTech /\ [][NextTech]_vars

InitVersions == TechIdle /\ UInit /\ PIdle /\ LIdle /\ RIdle

NextVersions == VersionIndexRun

SpecVersions == InitVersions /\ [][NextVersions]_vars

InitPrinciples ==
    /\ TechIdle
    /\ LIdle
    /\ RIdle
    /\ PInit
    /\ upc = "idle"
    /\ ufiles \in SUBSET PrinciplesCorpus
    /\ ulisting = <<>>
    /\ uversions = NoValue
    /\ inverted = NoValue
    /\ prevListing = <<>>
    /\ prevInverted = NoValue

NextPrinciples ==
    \/ AddPrinciple
    \/ AddGuideline
    \/ AddSuccessCriterion
    \/ PrinBuild
    \/ PrinSwapRebuild

SpecPrinciples == InitPrinciples /\ [][NextPrinciples]_vars

InitLinks == TechIdle /\ UIdle /\ PIdle /\ LInit /\ RIdle

NextLinks == LinkTechniquesCall \/ LinkUnderstandingCall

SpecLinks == InitLinks /\ [][NextLinks]_vars

InitRules == TechIdle /\ UIdle /\ PIdle /\ LIdle /\ RInit

NextRules == TestRulesCompute

SpecRules == InitRules /\ [][NextRules]_vars

\* ============================================================= claims
\* The number a digit string denotes.
DigitsValue(s) ==
    LET digits == StripNonDigits(s)
        value[n \in 0..Len(digits)] ==
            IF n = 0 THEN 0 ELSE 10 * value[n - 1] + (CharCode(digits[n]) - 48)
    IN value[Len(digits)]

\* C1: in the catalog getTechniques returns, every technology's list is in
\* ascending order of the number formed by the digits of each id (so
\* G10, G2, G1 come out as G1, G2, G10).
C1_SortedByNumber ==
    tpc = "returned" =>
        \A t \in DOMAIN tresult.value :
            \A i, j \in DOMAIN tresult.value[t] :
                i < j => DigitsValue(tresult.value[t][i].id)
                            <= DigitsValue(tresult.value[t][j].id)

\* The first segments of the glob entries consumed that are no technology.
UnknownSegments == {tpaths[i][1] : i \in DOMAIN tpaths} \ TechnologySet

\* C5: when a discovered path's first segment is outside the technology
\* enumeration, getTechniques ends with an error naming that segment and
\* returns no catalog.
C5_UnknownPartitionNamed ==
    (tpc \in {"returned", "failed"} /\ UnknownSegments # {}) =>
        /\ tpc = "failed"
        /\ tresult = NoValue
        /\ \E seg \in UnknownSegments : terror = ErrInvalidTechnology(seg)

\* C6: whenever getTechniques returns, the catalog has exactly the 12
\* technology keys and each maps to a list, empty when no document of that
\* technology was discovered.
C6_AllTechnologyKeys ==
    tpc = "returned" =>
        /\ tresult.kind = "value"
        /\ DOMAIN tresult.value = TechnologySet
        /\ Cardinality(DOMAIN tresult.value) = 12
        /\ \A t \in TechnologySet :
            /\ DOMAIN tresult.value[t] = 1..Len(tresult.value[t])
            /\ Len(tresult.value[t]) =
                    Cardinality({i \in DOMAIN tpaths : tpaths[i][1] = t})

\* C6 witness: a returned catalog with a filled list beside empty ones.
C6_Witness ==
    /\ tpc = "returned"
    /\ Len(tresult.value[<<"general">>]) = 2
    /\ tresult.value[<<"aria">>] = <<>>
    /\ tresult.value[<<"css">>] = <<>>

\* C9: no stored titleHtml holds two adjacent whitespace characters.
C9_NoAdjacentWhitespace ==
    tpc = "returned" =>
        \A t \in DOMAIN tresult.value : \A i \in DOMAIN tresult.value[t] :
            LET title == tresult.value[t][i].titleHtml
            IN \A k \in 1..(Len(title) - 1) : ~(IsSpace(title[k]) /\ IsSpace(title[k + 1]))

\* The node the tree holds for the .sc element at position pos.
TreeScAt(t, pos) == t[pos[1]].guidelines[pos[2]].successCriteria[pos[3]]

\* The guideline positions <<i, j>> of a document.
GuidelinePositions(document) ==
    {pos \in (1..Len(document)) \X (1..3) : pos[2] \in DOMAIN document[pos[1]].guidelines}

\* The tree has one node per element of the document, in the same places.
SameShape(t, document) ==
    /\ Len(t) = Len(document)
    /\ \A i \in DOMAIN document :
        /\ Len(t[i].guidelines) = Len(document[i].guidelines)
        /\ \A j \in DOMAIN document[i].guidelines :
            Len(t[i].guidelines[j].successCriteria) = Len(document[i].guidelines[j].scs)

\* C2: every success criterion of a returned tree has version WCAG<v>, v
\* the version the Version Membership Index maps its id to, one of 20, 21,
\* 22; when some .sc id is not in the index, getPrinciples throws and
\* returns no tree, and a returned tree is never partial.
C2_ScVersionFromIndex ==
    ppc \in {"built", "rebuilt"} =>
        /\ tree.kind \in {"value", "error"}
        /\ tree.kind = "value" =>
            /\ inverted.kind = "value"
            /\ SameShape(tree.value, doc)
            /\ \A pos \in ScPositions(doc) :
                /\ TreeScAt(tree.value, pos).id = ScAt(doc, pos).id
                /\ ScAt(doc, pos).id \in DOMAIN inverted.value
                /\ inverted.value[ScAt(doc, pos).id] \in {V20, V21, V22}
                /\ TreeScAt(tree.value, pos).version
                        = <<"W", "C", "A", "G">> \o inverted.value[ScAt(doc, pos).id]
        /\ (/\ inverted.kind = "value"
            /\ \E pos \in ScPositions(doc) : ScAt(doc, pos).id \notin DOMAIN inverted.value)
                => tree.kind = "error"

\* C2 witness: a tree was returned whose success criteria resolve to two
\* different versions.
C2_Witness ==
    /\ ppc = "built"
    /\ tree.kind = "value"
    /\ \E x, y \in ScPositions(doc) :
            /\ TreeScAt(tree.value, x).version = <<"W", "C", "A", "G", "2", "0">>
            /\ TreeScAt(tree.value, y).version = <<"W", "C", "A", "G", "2", "2">>

\* C3: num is positional. The i-th principle has num i, its j-th guideline
\* i.j, that guideline's k-th success criterion i.j.k, in document order;
\* and after two sibling guidelines change places, each has the num the
\* other had, with its own id and name, and every other guideline node is
\* as it was.
C3_PositionalNumbering ==
    /\ (ppc \in {"built", "rebuilt"} /\ tree.kind = "value") =>
        /\ SameShape(tree.value, doc)
        /\ \A i \in DOMAIN doc :
            /\ tree.value[i].num = Dec(i)
            /\ tree.value[i].id = doc[i].id
        /\ \A g \in GuidelinePositions(doc) :
            /\ tree.value[g[1]].guidelines[g[2]].num = Dec(g[1]) \o <<".">> \o Dec(g[2])
            /\ tree.value[g[1]].guidelines[g[2]].id = doc[g[1]].guidelines[g[2]].id
        /\ \A pos \in ScPositions(doc) :
            /\ TreeScAt(tree.value, pos).num =
                    Dec(pos[1]) \o <<".">> \o Dec(pos[2]) \o <<".">> \o Dec(pos[3])
            /\ TreeScAt(tree.value, pos).id = ScAt(doc, pos).id
    /\ (ppc = "rebuilt" /\ tree.kind = "value" /\ prevTree.kind = "value") =>
        LET p == lastSwap[1]
            a == lastSwap[2]
            b == lastSwap[3]
            old == prevTree.value
            new == tree.value
        IN /\ new[p].guidelines[a].id = old[p].guidelines[b].id
           /\ new[p].guidelines[a].name = old[p].guidelines[b].name
           /\ new[p].guidelines[a].num = old[p].guidelines[a].num
           /\ new[p].guidelines[b].id = old[p].guidelines[a].id
           /\ new[p].guidelines[b].name = old[p].guidelines[a].name
           /\ new[p].guidelines[b].num = old[p].guidelines[b].num
           /\ \A g \in GuidelinePositions(doc) :
                (g # <<p, a>> /\ g # <<p, b>>) =>
                    new[g[1]].guidelines[g[2]] = old[g[1]].guidelines[g[2]]

\* C3 witness: the first and third of three sibling guidelines changed
\* places, each holding success criteria, and both builds returned a tree.
C3_Witness ==
    /\ ppc = "rebuilt"
    /\ tree.kind = "value"
    /\ prevTree.kind = "value"
    /\ lastSwap = <<2, 1, 3>>
    /\ Len(doc[2].guidelines) = 3
    /\ doc[2].guidelines[1].scs # <<>>
    /\ doc[2].guidelines[3].scs # <<>>

\* C4: in a returned tree a guideline has version WCAG21 exactly when its
\* id is input-modalities, and WCAG20 otherwise, wherever it sits.
C4_InputModalitiesPinned ==
    (ppc \in {"built", "rebuilt"} /\ tree.kind = "value") =>
        \A g \in GuidelinePositions(doc) :
            LET node == tree.value[g[1]].guidelines[g[2]]
            IN /\ node.id = <<"input-modalities">>
                    <=> node.version = <<"W", "C", "A", "G", "2", "1">>
               /\ node.id # <<"input-modalities">>
                    => node.version = <<"W", "C", "A", "G", "2", "0">>

\* C4 witness: input-modalities was moved from the last to the first place
\* among three siblings of the second principle and the tree was rebuilt.
C4_Witness ==
    /\ ppc = "rebuilt"
    /\ tree.kind = "value"
    /\ lastSwap = <<2, 1, 3>>
    /\ tree.value[2].guidelines[1].id = <<"input-modalities">>
    /\ prevTree.kind = "value"
    /\ prevTree.value[2].guidelines[3].id = <<"input-modalities">>

\* The ids of a filter call, as an array.
CallIds == IF lcall.ids.isArray THEN lcall.ids.items ELSE <<lcall.ids.item>>

AllStrings(list) == \A n \in DOMAIN list : list[n].kind = "string"

IsTechniqueKey(x) == x.value \in DOMAIN flatTechniques
IsNoTechniqueKey(x) == x.value \notin DOMAIN flatTechniques
IsGuidelineKey(x) == x.value \in DOMAIN flatGuidelines
IsNoGuidelineKey(x) == x.value \notin DOMAIN flatGuidelines

\* How often the token tok occurs in the string s.
Occurrences(s, tok) == Cardinality({n \in DOMAIN s : s[n] = tok})

\* C7: given string ids of which some are no key of the flattened guideline
\* map, linkUnderstanding warns once per unresolved id, emits a link for
\* every resolvable id and none for the others, and raises no error.
C7_UnderstandingDegrades ==
    (/\ lpc \in {"returned", "failed"}
     /\ lcall.filter = "linkUnderstanding"
     /\ AllStrings(CallIds)) =>
        LET good == SelectSeq(CallIds, IsGuidelineKey)
            unresolved == SelectSeq(CallIds, IsNoGuidelineKey)
        IN /\ lerror = NoValue
           /\ lpc = "returned"
           /\ lwarnings = [n \in DOMAIN unresolved |->
                            WarnGuideline(lcall.page, unresolved[n].value)]
           /\ loutput.kind = "value"
           /\ Occurrences(loutput.value, "</a>") = Len(good)

C10_IndexDeterministic ==
    (upc \in {"returned", "failed"} /\ prevInverted # NoValue) =>
        /\ inverted.kind = prevInverted.kind
        /\ inverted.kind = "value" => inverted.value = prevInverted.value

\* C10 witness: two runs returned after listing three files, one basename
\* under two versions, in opposite orders.
C10_Witness ==
    /\ upc = "returned"
    /\ prevInverted.kind = "value"
    /\ Len(ulisting) = 3
    /\ \A n \in 1..3 : prevListing[n] = ulisting[4 - n]
    /\ \E x, y \in ufiles : x[1] # y[1] /\ x[2] = y[2]

\* The position of a version among the keys of `versions`, which is the
\* order in which the partitions are scanned.
ScanRank(v) == CHOOSE i \in DOMAIN VersionKeys : VersionKeys[i] = v

\* The versions under which the basename of file name `filename` exists.
Holders(filename) == {g[1] : g \in {x \in ufiles : x[2] = filename}}

\* C11: when every directory under understanding/ is a version, the index
\* is returned without error, and every basename found maps to the version
\* scanned last (20, then 21, then 22) among those that hold it; a basename
\* under one version maps to that version.
C11_LastScanWins ==
    (upc \in {"returned", "failed"}
        /\ \A f \in ufiles : f[1] \in WcagVersions) =>
        /\ upc = "returned"
        /\ inverted.kind = "value"
        /\ \A f \in ufiles :
            \E v \in Holders(f[2]) :
                /\ \A w \in Holders(f[2]) : ScanRank(w) <= ScanRank(v)
                /\ Lookup(inverted.value, basename(f[2], ".html")) = Own(v)

\* The basenames of the files that exist under understanding/<v>/.
BasenamesUnder(v) ==
    {SubSeq(f[2], 1, Len(f[2]) - 1) : f \in {x \in ufiles : x[1] = v}}

\* C15: whenever getGuidelinesVersions returns, the result has exactly the
\* keys 20, 21, 22, and each key's list holds exactly the basenames of the
\* files under that version, once each, in ascending lexicographic order,
\* whatever the order of the directory listing.
C15_VersionListsSorted ==
    (upc \in {"returned", "failed"} /\ uversions.kind = "value") =>
        /\ DOMAIN uversions.value = {V20, V21, V22}
        /\ \A v \in {V20, V21, V22} :
            LET list == uversions.value[v]
            IN /\ {list[i] : i \in DOMAIN list} = BasenamesUnder(v)
               /\ Len(list) = Cardinality(BasenamesUnder(v))
               /\ \A i, j \in DOMAIN list : i < j => StrLess(list[i], list[j])

\* C15 witness: a version's two files were listed in descending order and
\* its list came back ascending, beside an empty list.
C15_Witness ==
    /\ upc = "returned"
    /\ uversions.kind = "value"
    /\ \E v \in {V20, V21, V22}, i, j \in DOMAIN ulisting :
        /\ i < j
        /\ ulisting[i] = <<v, HtmlFile(<<"b">>)>>
        /\ ulisting[j] = <<v, HtmlFile(<<"a", "b">>)>>
        /\ Len(uversions.value[v]) = 2
    /\ \E v \in {V20, V21, V22} : uversions.value[v] = <<>>

\* The glob entries consumed under directory t, as positions of tpaths.
DiscoveredUnder(t) == {n \in DOMAIN tpaths : tpaths[n][1] = t}

\* The name <name> of the glob entry <technology>/<name>.html at position n.
PathName(n) == SubSeq(tpaths[n][2], 1, Len(tpaths[n][2]) - 1)

\* The position at which the document of technique id `id` of technology t
\* was discovered.
DiscoveryIndex(t, id) == CHOOSE n \in DiscoveredUnder(t) : PathName(n) = id

\* C13: in a returned catalog, two techniques of one technology whose ids
\* leave the same digit string keep the relative order in which their
\* documents were discovered.
C13_SortStable ==
    tpc = "returned" =>
        \A t \in DOMAIN tresult.value :
            LET list == tresult.value[t]
            IN \A i, j \in DOMAIN list :
                (i < j /\ StripNonDigits(list[i].id) = StripNonDigits(list[j].id))
                    => DiscoveryIndex(t, list[i].id) < DiscoveryIndex(t, list[j].id)

\* C13 witness: G1 was discovered before F1 and G2 before both; the
\* returned list has the tie G1, F1 in discovery order, ahead of G2.
C13_Witness ==
    /\ tpc = "returned"
    /\ \E t \in DOMAIN tresult.value :
        /\ Len(tresult.value[t]) = 3
        /\ tresult.value[t][1].id = <<"G", "1">>
        /\ tresult.value[t][2].id = <<"F", "1">>
        /\ tresult.value[t][3].id = <<"G", "2">>
        /\ DiscoveryIndex(t, <<"G", "2">>) = 1
        /\ DiscoveryIndex(t, <<"G", "1">>) = 2

\* The error names x: only the Errors the code itself constructs carry an
\* argument in their message, a TypeError of the runtime carries none.
ErrorNames(err, x) == err.type = "Error" /\ err.arg = x

\* C14: when a discovered technique document (under a technology's
\* directory) has no h1, getTechniques fails, returns no catalog, and the
\* error identifies the path of a document without h1.
C14_MissingHeadingNamesPath ==
    (/\ tpc \in {"returned", "failed"}
     /\ \A n \in DOMAIN tpaths : tpaths[n][1] \in TechnologySet
     /\ \E n \in DOMAIN th1s : th1s[n] = NullHtml) =>
        /\ tpc = "failed"
        /\ tresult = NoValue
        /\ \E n \in DOMAIN th1s : th1s[n] = NullHtml /\ ErrorNames(terror, tpaths[n])

\* C16: a returned catalog holds, in the list of each technology, exactly
\* one Technique per document discovered under that technology, with the
\* document's name as id, and nothing else; every discovered path is under
\* a technology of the catalog.
C16_NoLossNoDuplicate ==
    tpc = "returned" =>
        /\ \A n \in DOMAIN tpaths : tpaths[n][1] \in DOMAIN tresult.value
        /\ \A t \in DOMAIN tresult.value :
            LET list == tresult.value[t]
            IN /\ Len(list) = Cardinality(DiscoveredUnder(t))
               /\ \A n \in DiscoveredUnder(t) :
                    Cardinality({k \in DOMAIN list : list[k].id = PathName(n)}) = 1
               /\ \A k \in DOMAIN list :
                    \E n \in DiscoveredUnder(t) : PathName(n) = list[k].id

\* C16 witness: documents of the same name under two technologies and a
\* second document beside one of them, each filed once under its own.
C16_Witness ==
    /\ tpc = "returned"
    /\ Len(tpaths) = 3
    /\ Len(tresult.value[<<"general">>]) = 2
    /\ Len(tresult.value[<<"css">>]) = 1
    /\ \E k \in 1..2 : tresult.value[<<"general">>][k].id = tresult.value[<<"css">>][1].id
    /\ tresult.value[<<"general">>][1].id = PathName(3)

\* The positions of the table whose record lists slug under `field`.
Listing(field, slug) ==
    {i \in DOMAIN actRules :
        \E k \in DOMAIN actRules[i][field] : actRules[i][field][k] = slug}

\* seq is the sub-sequence of the table at exactly the positions idx, in
\* table order.
IsTableSubsequence(seq, idx) ==
    /\ Len(seq) = Cardinality(idx)
    /\ \E at \in [DOMAIN seq -> idx] :
        /\ \A i, j \in DOMAIN seq : i < j => at[i] < at[j]
        /\ \A i \in DOMAIN seq : seq[i] = actRules[at[i]]

\* C12: the testRules value of a techniques page is the sub-sequence of the
\* table, in table order, of exactly the records whose wcagTechniques lists
\* the page's slug; of an understanding page (one not also flagged as a
\* techniques page), of exactly those whose successCriteria lists it.
C12_TestRulesSubsequence ==
    (rpc = "computed" /\ (rpage.value.isTechniques \/ rpage.value.isUnderstanding)) =>
        /\ rtestRules.kind = "value"
        /\ IsTableSubsequence(rtestRules.value,
                Listing(IF rpage.value.isTechniques THEN "wcagTechniques"
                        ELSE "successCriteria", rpage.value.fileSlug))

\* C12 witness: on a techniques page, the first and third of three records
\* list the slug, differ, and are the value; the second lists the slug
\* nowhere.
C12_Witness ==
    /\ rpc = "computed"
    /\ rpage.value.isTechniques
    /\ ~rpage.value.isUnderstanding
    /\ Len(actRules) = 3
    /\ Listing("wcagTechniques", rpage.value.fileSlug) = {1, 3}
    /\ Listing("successCriteria", rpage.value.fileSlug) = {}
    /\ actRules[1] # actRules[3]
    /\ rtestRules = Own(<<actRules[1], actRules[3]>>)

====
